---- MODULE Spec2Model ----
(***************************************************************************)
(* The link-audit engine of markdown-analyzer: check_links_threaded and    *)
(* check_link (identical in http_auditor_service.py and                    *)
(* link_auditor_service.py) and the two request handlers built on them,    *)
(* run_http_audit and run_link_audit.                                      *)
(***************************************************************************)
EXTENDS Naturals, Integers, Sequences, FiniteSets, Bags, TLC

VARIABLES
    service,          \* which handler runs: "http", "link", or "pool" (a bare call of check_links_threaded)
    occ,              \* the extracted occurrences, in extraction order: [file, title, link, text]
    links_to_check,   \* the list handed to check_links_threaded
    main_pc,          \* position of the calling thread
    unique_links,     \* set(links)
    link_queue,       \* bag of the items of the Queue not yet taken
    unfinished_tasks, \* Queue.unfinished_tasks: put() minus task_done()
    num_threads,      \* min(MAX_LINK_CHECKER_THREADS, len(unique_links))
    started,          \* threads started so far by the for loop
    workers,          \* bag of the started threads' local states [pc, link, status_code, status_category]
    lock,             \* TRUE while the threading.Lock is held
    results,          \* the shared results list
    link_results,     \* what check_links_threaded returned to the handler
    requested,        \* the statuses the request asks for (http_codes / link_audit_statuses)
    selected_statuses,\* the list the handler filters with
    report,           \* the handler's response
    claimed,          \* history: how often each link was returned by link_queue.get()
    issued,           \* history: how many requests.get were issued for each link
    ended,            \* history: how the requests.get issued for each link ended, in order
    peer,             \* the locals of a second call of check_links_threaded running in the same process
    gw,               \* api_gateway: the handler's position and locals [pc, endpoint, url, made, base_download_dir, scan_dir, error, status]
    scan_cache,       \* api_gateway: the directories that exist under SCAN_CACHE_DIR
    scan              \* scan_service: run_scan's position and locals over one file

vars == <<service, occ, links_to_check, main_pc, unique_links, link_queue,
          unfinished_tasks, num_threads, started, workers, lock, results,
          link_results, requested, selected_statuses, report, claimed, issued, ended, peer, gw, scan_cache, scan>>

(* the variables of the call the model follows *)
own == <<service, occ, links_to_check, main_pc, unique_links, link_queue,
         unfinished_tasks, num_threads, started, workers, lock, results,
         link_results, requested, selected_statuses, report, claimed, issued,
         ended, gw, scan_cache, scan>>

---------------------------------------------------------------------------
(* Bounds of the model *)

MaxOcc == 2         \* occurrences extracted by a handler
MaxLinks == 3       \* length of a list passed to check_links_threaded directly
MaxWideUrls == 11    \* distinct links of a call that needs every thread
MaxRequests == 2    \* requests the gateway serves one after the other
MaxFileLines == 4   \* lines of the file run_scan reads

(* Program constant *)
MAX_LINK_CHECKER_THREADS == 10

---------------------------------------------------------------------------
(* Values *)

UrlNames == <<"http://a", "http://b", "http://c", "http://d", "http://e",
              "http://f", "http://g", "http://h", "http://i", "http://j",
              "http://k", "http://l", "http://m", "http://n">>

UrlsUpTo(n) == {UrlNames[i] : i \in 1..n}
Urls == {"http://a", "http://b"}
EmptyLink == ""
AllLinks == UrlsUpTo(Len(UrlNames)) \cup {EmptyLink}

FileNames == <<"f1.md", "f2.md">>
Files == {FileNames[i] : i \in 1..Len(FileNames)}
FileIdx(f) == CHOOSE i \in 1..Len(FileNames) : FileNames[i] = f
Title(f) == "Title of " \o f
Texts == {"x", "y"}

Min(a, b) == IF a <= b THEN a ELSE b

RECURSIVE SeqToSet(_)
SeqToSet(s) == IF s = <<>> THEN {} ELSE {Head(s)} \cup SeqToSet(Tail(s))

(* A Python value that is an int or a str: status_code is response.status_code
   or the string 'N/A'. *)
PyInt(n) == [isint |-> TRUE, int |-> n, str |-> ""]
PyStr(s) == [isint |-> FALSE, int |-> 0, str |-> s]

Digits == <<"0", "1", "2", "3", "4", "5", "6", "7", "8", "9">>

(* str(n) of a non-negative int *)
RECURSIVE IntToStr(_)
IntToStr(n) == IF n < 10 THEN Digits[n + 1]
               ELSE IntToStr(n \div 10) \o Digits[(n % 10) + 1]

(* str(v) *)
Str(v) == IF v.isint THEN IntToStr(v.int) ELSE v.str

---------------------------------------------------------------------------
(* How requests.get can end *)

StatusCodes == {200, 404}
Endings == [kind : {"response"}, code : StatusCodes]
           \cup [kind : {"Timeout", "ConnectionError", "Exception"}, code : {0}]

(* every way it can end: any status code of a response, and the connect
   timeout, which requests raises as a subclass of both Timeout and
   ConnectionError *)
AllEndings ==
    [kind : {"response"}, code : 100..999]
    \cup [kind : {"Timeout", "ConnectTimeout", "ConnectionError", "Exception"},
          code : {0}]

(* isinstance(exception, cls) for the exception an ending raises *)
Bases(kind) ==
    CASE kind = "Timeout" -> {"Timeout", "Exception"}
      [] kind = "ConnectTimeout" -> {"Timeout", "ConnectionError", "Exception"}
      [] kind = "ConnectionError" -> {"ConnectionError", "Exception"}
      [] OTHER -> {"Exception"}

(* the failure categories spelt in one word *)
ClassifyOneWord(e) ==
    IF e.kind = "response"
    THEN [status_code |-> PyInt(e.code),
          status_category |-> IntToStr(e.code \div 100) \o "xx"]
    ELSE IF "Timeout" \in Bases(e.kind)
    THEN [status_code |-> PyStr("N/A"), status_category |-> "Timeout"]
    ELSE IF "ConnectionError" \in Bases(e.kind)
    THEN [status_code |-> PyStr("N/A"), status_category |-> "ConnectionError"]
    ELSE [status_code |-> PyStr("N/A"), status_category |-> "InvalidURL"]

(* a timeout recorded under the status code 408 *)
ClassifyTimeout408(e) ==
    IF e.kind = "response"
    THEN [status_code |-> PyInt(e.code),
          status_category |-> IntToStr(e.code \div 100) \o "xx"]
    ELSE IF "Timeout" \in Bases(e.kind)
    THEN [status_code |-> PyInt(408), status_category |-> "Timeout"]
    ELSE IF "ConnectionError" \in Bases(e.kind)
    THEN [status_code |-> PyStr("N/A"), status_category |-> "Connection Error"]
    ELSE [status_code |-> PyStr("N/A"), status_category |-> "Invalid URL"]

(* check_link without the `except requests.exceptions.Timeout` clause *)
ClassifyNoTimeoutClause(e) ==
    IF e.kind = "response"
    THEN [status_code |-> PyInt(e.code),
          status_category |-> IntToStr(e.code \div 100) \o "xx"]
    ELSE IF "ConnectionError" \in Bases(e.kind)
    THEN [status_code |-> PyStr("N/A"), status_category |-> "Connection Error"]
    ELSE [status_code |-> PyStr("N/A"), status_category |-> "Invalid URL"]

(* check_link's classification: the (status_code, status_category) pair;
   the except clauses are tried in order *)
Classify(e) ==
    IF e.kind = "response"
    THEN [status_code |-> PyInt(e.code),
          status_category |-> IntToStr(e.code \div 100) \o "xx"]
    ELSE IF "Timeout" \in Bases(e.kind)
    THEN [status_code |-> PyStr("N/A"), status_category |-> "Timeout"]
    ELSE IF "ConnectionError" \in Bases(e.kind)
    THEN [status_code |-> PyStr("N/A"), status_category |-> "Connection Error"]
    ELSE [status_code |-> PyStr("N/A"), status_category |-> "Invalid URL"]

---------------------------------------------------------------------------
(* Worker threads *)

NoCode == PyStr("")
Thread(pc, link, code, cat) ==
    [pc |-> pc, link |-> link, status_code |-> code, status_category |-> cat]
Fresh == Thread("loop", EmptyLink, NoCode, "")

(* the bag of threads with one thread moved from local state w to w2 *)
Move(w, w2) == (workers (-) SetToBag({w})) (+) SetToBag({w2})

Running == BagToSet(workers)
At(pc) == {w \in Running : w.pc = pc}
CountAt(pc) ==
    LET ws == At(pc)
        RECURSIVE Sum(_)
        Sum(S) == IF S = {} THEN 0
                  ELSE LET w == CHOOSE x \in S : TRUE
                       IN CopiesIn(w, workers) + Sum(S \ {w})
    IN Sum(ws)

(* probes in flight: threads inside requests.get *)
InFlight == CountAt("request")

(* one thread per unique link, without the cap *)
NumThreadsUncapped(unique) == Cardinality(unique)

(* at least one thread, also for an empty set *)
NumThreadsAtLeastOne(unique) ==
    IF unique = {} THEN 1 ELSE Min(MAX_LINK_CHECKER_THREADS, Cardinality(unique))

(* num_threads = min(MAX_LINK_CHECKER_THREADS, len(unique_links)) *)
NumThreads(unique) == Min(MAX_LINK_CHECKER_THREADS, Cardinality(unique))

(* unique_links = set(links) *)
UniqueLinks(links) == SeqToSet(links)

(* every element of the list is put, duplicates included *)
RECURSIVE SeqToBag(_)
SeqToBag(s) == IF s = <<>> THEN EmptyBag ELSE SetToBag({Head(s)}) (+) SeqToBag(Tail(s))
QueueItemsNoDedup(links) == SeqToBag(links)

(* `for link in unique_links: link_queue.put(link)`: the items of the queue.
   A set of strings is iterated in an order the program does not fix, so
   every order of the items is a possible queue; the queue is kept as the
   bag of its items and get() takes any of them. *)
QueueItems(links) == SetToBag(UniqueLinks(links))

(* the truth test of `if link:` *)
Truthy(link) == link # EmptyLink

---------------------------------------------------------------------------
(* check_links_threaded, the calling thread *)

(* results = []; link_queue = Queue(); lock = Lock(); unique_links = set(links);
   every unique link is put; num_threads is computed.  No thread exists yet,
   so these statements run without interleaving. *)
Enqueue ==
    /\ \/ main_pc = "call"
       \/ main_pc = "handler" /\ links_to_check # <<>>
    /\ unique_links' = UniqueLinks(links_to_check)
    /\ link_queue' = QueueItems(links_to_check)
    /\ unfinished_tasks' = BagCardinality(link_queue')
    /\ num_threads' = NumThreads(unique_links')
    /\ started' = 0
    /\ results' = <<>>
    /\ lock' = FALSE
    /\ main_pc' = "start"
    /\ UNCHANGED <<service, occ, links_to_check, workers, link_results,
                   requested, selected_statuses, report, claimed, issued, ended, peer, gw, scan_cache, scan>>

(* for _ in range(num_threads): Thread(target=worker, daemon=True).start() *)
StartThread ==
    /\ main_pc = "start"
    /\ started < num_threads
    /\ started' = started + 1
    /\ workers' = workers (+) SetToBag({Fresh})
    /\ UNCHANGED <<service, occ, links_to_check, main_pc, unique_links,
                   link_queue, unfinished_tasks, num_threads, lock, results,
                   link_results, requested, selected_statuses, report, claimed, issued, ended, peer, gw, scan_cache, scan>>

(* return results without waiting for the queue *)
JoinReturnNoWait ==
    /\ main_pc = "start"
    /\ started = num_threads
    /\ link_results' = results
    /\ main_pc' = "returned"
    /\ UNCHANGED <<service, occ, links_to_check, unique_links, link_queue,
                   unfinished_tasks, num_threads, started, workers, lock,
                   results, requested, selected_statuses, report, claimed, issued, ended, peer, gw, scan_cache, scan>>

(* link_queue.join() blocks until unfinished_tasks is 0; return results *)
JoinReturn ==
    /\ main_pc = "start"
    /\ started = num_threads
    /\ unfinished_tasks = 0
    /\ link_results' = results
    /\ main_pc' = "returned"
    /\ UNCHANGED <<service, occ, links_to_check, unique_links, link_queue,
                   unfinished_tasks, num_threads, started, workers, lock,
                   results, requested, selected_statuses, report, claimed, issued, ended, peer, gw, scan_cache, scan>>

---------------------------------------------------------------------------
(* worker() *)

(* while not link_queue.empty(): *)
WorkerTest(w) ==
    /\ w.pc = "loop"
    /\ workers' = Move(w, [w EXCEPT !.pc = IF link_queue # EmptyBag THEN "get" ELSE "exit"])
    /\ UNCHANGED <<service, occ, links_to_check, main_pc, unique_links,
                   link_queue, unfinished_tasks, num_threads, started, lock,
                   results, link_results, requested, selected_statuses, report, claimed, issued, ended, peer, gw, scan_cache, scan>>

(* link = link_queue.get(): blocks while the queue is empty.  `if link:`
   decides whether check_link runs; check_link starts with requests.get. *)
WorkerGet(w, link) ==
    /\ w.pc = "get"
    /\ BagIn(link, link_queue)
    /\ link_queue' = link_queue (-) SetToBag({link})
    /\ claimed' = [claimed EXCEPT ![link] = @ + 1]
    /\ IF Truthy(link)
       THEN /\ workers' = Move(w, [w EXCEPT !.pc = "request", !.link = link])
            /\ issued' = [issued EXCEPT ![link] = @ + 1]
       ELSE /\ workers' = Move(w, [w EXCEPT !.pc = "task_done", !.link = link])
            /\ UNCHANGED issued
    /\ UNCHANGED <<service, occ, links_to_check, main_pc, unique_links,
                   unfinished_tasks, num_threads, started, lock, results,
                   link_results, requested, selected_statuses, report, ended, peer, gw, scan_cache, scan>>

(* check_link without the try/except: an exception of requests.get leaves
   check_link and the worker, and the thread ends *)
RequestEndsRaises(w, e) ==
    /\ w.pc = "request"
    /\ workers' = Move(w, IF e.kind = "response"
                          THEN [w EXCEPT !.pc = "lock",
                                         !.status_code = Classify(e).status_code,
                                         !.status_category = Classify(e).status_category]
                          ELSE [w EXCEPT !.pc = "exit"])
    /\ ended' = [ended EXCEPT ![w.link] = Append(@, e)]
    /\ UNCHANGED <<service, occ, links_to_check, main_pc, unique_links,
                   link_queue, unfinished_tasks, num_threads, started, lock,
                   results, link_results, requested, selected_statuses, report, claimed, issued, peer, gw, scan_cache, scan>>

(* requests.get returns or raises; the try/except sets status_code and
   status_category *)
RequestEnds(w, e) ==
    /\ w.pc = "request"
    /\ workers' = Move(w, [w EXCEPT !.pc = "lock",
                                    !.status_code = Classify(e).status_code,
                                    !.status_category = Classify(e).status_category])
    /\ ended' = [ended EXCEPT ![w.link] = Append(@, e)]
    /\ UNCHANGED <<service, occ, links_to_check, main_pc, unique_links,
                   link_queue, unfinished_tasks, num_threads, started, lock,
                   results, link_results, requested, selected_statuses, report, claimed, issued, peer, gw, scan_cache, scan>>

(* the with block entered without waiting for the lock *)
AcquireNoWait(w) ==
    /\ w.pc = "lock"
    /\ lock' = TRUE
    /\ workers' = Move(w, [w EXCEPT !.pc = "append"])
    /\ UNCHANGED <<service, occ, links_to_check, main_pc, unique_links,
                   link_queue, unfinished_tasks, num_threads, started,
                   results, link_results, requested, selected_statuses, report, claimed, issued, ended, peer, gw, scan_cache, scan>>

(* with lock: (acquire) *)
Acquire(w) ==
    /\ w.pc = "lock"
    /\ ~lock
    /\ lock' = TRUE
    /\ workers' = Move(w, [w EXCEPT !.pc = "append"])
    /\ UNCHANGED <<service, occ, links_to_check, main_pc, unique_links,
                   link_queue, unfinished_tasks, num_threads, started,
                   results, link_results, requested, selected_statuses, report, claimed, issued, ended, peer, gw, scan_cache, scan>>

(* results_list.append({...}) and the release at the end of the with block *)
AppendResult(w) ==
    /\ w.pc = "append"
    /\ results' = Append(results, [link |-> w.link,
                                   status_code |-> w.status_code,
                                   status_category |-> w.status_category])
    /\ lock' = FALSE
    /\ workers' = Move(w, [w EXCEPT !.pc = "task_done"])
    /\ UNCHANGED <<service, occ, links_to_check, main_pc, unique_links,
                   link_queue, unfinished_tasks, num_threads, started,
                   link_results, requested, selected_statuses, report, claimed, issued, ended, peer, gw, scan_cache, scan>>

(* the loop goes on without task_done() *)
TaskDoneMissing(w) ==
    /\ w.pc = "task_done"
    /\ workers' = Move(w, Fresh)
    /\ UNCHANGED <<service, occ, links_to_check, main_pc, unique_links,
                   link_queue, unfinished_tasks, num_threads, started, lock,
                   results, link_results, requested, selected_statuses, report,
                   claimed, issued, ended, peer, gw, scan_cache, scan>>

(* link_queue.task_done() *)
TaskDone(w) ==
    /\ w.pc = "task_done"
    /\ unfinished_tasks' = unfinished_tasks - 1
    /\ workers' = Move(w, Fresh)
    /\ UNCHANGED <<service, occ, links_to_check, main_pc, unique_links,
                   link_queue, num_threads, started, lock, results,
                   link_results, requested, selected_statuses, report, claimed, issued, ended, peer, gw, scan_cache, scan>>

---------------------------------------------------------------------------
(* A second call of check_links_threaded in the same process.  results,
   link_queue and lock are locals of check_links_threaded, and worker is a
   closure over them: the second call has its own, kept in the record peer,
   and its threads run the same statements on them. *)

NoPeer ==
    [pc |-> "none", links |-> <<>>, link_queue |-> EmptyBag,
     unfinished_tasks |-> 0, num_threads |-> 0, started |-> 0,
     workers |-> EmptyBag, lock |-> FALSE, results |-> <<>>]
PeerCall(links) == [NoPeer EXCEPT !.pc = "call", !.links = links]
PeerMove(w, w2) == (peer.workers (-) SetToBag({w})) (+) SetToBag({w2})

PeerEnqueue ==
    /\ peer.pc = "call"
    /\ peer' = [peer EXCEPT
                   !.link_queue = QueueItems(peer.links),
                   !.unfinished_tasks = BagCardinality(QueueItems(peer.links)),
                   !.num_threads = NumThreads(UniqueLinks(peer.links)),
                   !.pc = "start"]
    /\ UNCHANGED own

PeerStartThread ==
    /\ peer.pc = "start"
    /\ peer.started < peer.num_threads
    /\ peer' = [peer EXCEPT !.started = @ + 1,
                            !.workers = @ (+) SetToBag({Fresh})]
    /\ UNCHANGED own

PeerJoinReturn ==
    /\ peer.pc = "start"
    /\ peer.started = peer.num_threads
    /\ peer.unfinished_tasks = 0
    /\ peer' = [peer EXCEPT !.pc = "returned"]
    /\ UNCHANGED own

PeerWorkerTest(w) ==
    /\ w.pc = "loop"
    /\ peer' = [peer EXCEPT !.workers =
                   PeerMove(w, [w EXCEPT !.pc = IF peer.link_queue # EmptyBag
                                                THEN "get" ELSE "exit"])]
    /\ UNCHANGED own

PeerWorkerGet(w, link) ==
    /\ w.pc = "get"
    /\ BagIn(link, peer.link_queue)
    /\ peer' = [peer EXCEPT
                   !.link_queue = @ (-) SetToBag({link}),
                   !.workers = PeerMove(w, [w EXCEPT
                                   !.pc = IF Truthy(link) THEN "request"
                                          ELSE "task_done",
                                   !.link = link])]
    /\ UNCHANGED own

PeerRequestEnds(w, e) ==
    /\ w.pc = "request"
    /\ peer' = [peer EXCEPT !.workers =
                   PeerMove(w, [w EXCEPT
                                   !.pc = "lock",
                                   !.status_code = Classify(e).status_code,
                                   !.status_category = Classify(e).status_category])]
    /\ UNCHANGED own

PeerAcquire(w) ==
    /\ w.pc = "lock"
    /\ ~peer.lock
    /\ peer' = [peer EXCEPT !.lock = TRUE,
                            !.workers = PeerMove(w, [w EXCEPT !.pc = "append"])]
    /\ UNCHANGED own

(* results as a list of the module: the second call's threads append to the
   list of the first *)
PeerAppendShared(w) ==
    /\ w.pc = "append"
    /\ results' = Append(results, [link |-> w.link,
                                   status_code |-> w.status_code,
                                   status_category |-> w.status_category])
    /\ peer' = [peer EXCEPT !.lock = FALSE,
                            !.workers = PeerMove(w, [w EXCEPT !.pc = "task_done"])]
    /\ UNCHANGED <<service, occ, links_to_check, main_pc, unique_links,
                   link_queue, unfinished_tasks, num_threads, started, workers,
                   lock, link_results, requested, selected_statuses, report,
                   claimed, issued, ended, gw, scan_cache, scan>>

PeerAppendResult(w) ==
    /\ w.pc = "append"
    /\ peer' = [peer EXCEPT
                   !.results = Append(@, [link |-> w.link,
                                          status_code |-> w.status_code,
                                          status_category |-> w.status_category]),
                   !.lock = FALSE,
                   !.workers = PeerMove(w, [w EXCEPT !.pc = "task_done"])]
    /\ UNCHANGED own

PeerTaskDone(w) ==
    /\ w.pc = "task_done"
    /\ peer' = [peer EXCEPT !.unfinished_tasks = @ - 1,
                            !.workers = PeerMove(w, Fresh)]
    /\ UNCHANGED own

---------------------------------------------------------------------------
(* Aggregation, shared *)

(* {} and the response of lines 124-125 *)
EmptyDict == [c \in {} |-> 0]
NoReport == [total_links_checked |-> 0, status_counts |-> EmptyDict, details |-> <<>>]

(* x in lst *)
In(x, lst) == \E i \in DOMAIN lst : lst[i] = x

(* counter[category] = 1 in place of counter[category] += 1 *)
StatusCounterNoIncrement(res) ==
    [c \in {res[i].status_category : i \in DOMAIN res} |-> 1]

(* Counter(res['status_category'] for res in link_results), as a dict *)
StatusCounter(res) ==
    [c \in {res[i].status_category : i \in DOMAIN res} |->
        Cardinality({i \in DOMAIN res : res[i].status_category = c})]

Analytics(res) ==
    [total_links_checked |-> Len(res), status_counts |-> StatusCounter(res)]

---------------------------------------------------------------------------
(* run_http_audit *)

(* file_link_map[link] = [source] in place of the append: the last source
   replaces the earlier ones *)
RECURSIVE SourcesOfLast(_, _)
SourcesOfLast(o, link) ==
    IF o = <<>> THEN <<>>
    ELSE IF SourcesOfLast(Tail(o), link) # <<>>
         THEN SourcesOfLast(Tail(o), link)
         ELSE IF Head(o).link = link
              THEN <<[file |-> Head(o).file, title |-> Head(o).title,
                      anchor |-> Head(o).text]>>
              ELSE <<>>

(* file_link_map: link -> the list of {file, title, anchor} that use it, in
   the order the occurrences were extracted *)
RECURSIVE SourcesOf(_, _)
SourcesOf(o, link) ==
    IF o = <<>> THEN <<>>
    ELSE (IF Head(o).link = link
          THEN <<[file |-> Head(o).file, title |-> Head(o).title,
                  anchor |-> Head(o).text]>>
          ELSE <<>>) \o SourcesOf(Tail(o), link)

HttpFileLinkMap(o) ==
    [link \in {o[i].link : i \in DOMAIN o} |-> SourcesOf(o, link)]

(* the test without `status_str in http_codes_to_find` *)
HttpMatchesNoCode(res, codes) ==
    \/ In("*", codes)
    \/ In(res.status_category, codes)

(* the test of lines 137-139 *)
HttpMatches(res, codes) ==
    \/ In("*", codes)
    \/ In(Str(res.status_code), codes)
    \/ In(res.status_category, codes)

(* the rows of one result: one per source that uses the link *)
HttpRows(res, sources) ==
    [i \in DOMAIN sources |->
        [file |-> sources[i].file, title |-> sources[i].title,
         anchor |-> sources[i].anchor, link |-> res.link,
         status_code |-> res.status_code,
         status_category |-> res.status_category]]

(* detailed_results: for res in link_results, in list order *)
RECURSIVE HttpDetails(_, _, _)
HttpDetails(res, flm, codes) ==
    IF res = <<>> THEN <<>>
    ELSE (IF HttpMatches(Head(res), codes)
          THEN HttpRows(Head(res),
                        IF Head(res).link \in DOMAIN flm
                        THEN flm[Head(res).link] ELSE <<>>)
          ELSE <<>>) \o HttpDetails(Tail(res), flm, codes)

(* the counts taken over the results the filter keeps *)
HttpReportCountsFiltered(res, o, codes) ==
    LET kept == SelectSeq(res, LAMBDA r : HttpMatches(r, codes))
    IN [total_links_checked |-> Analytics(kept).total_links_checked,
        status_counts |-> Analytics(kept).status_counts,
        details |-> HttpDetails(res, HttpFileLinkMap(o), codes)]

HttpReport(res, o, codes) ==
    [total_links_checked |-> Analytics(res).total_links_checked,
     status_counts |-> Analytics(res).status_counts,
     details |-> HttpDetails(res, HttpFileLinkMap(o), codes)]

---------------------------------------------------------------------------
(* run_link_audit *)

(* the extend written with the tags spelt in one word *)
ExpandOtherOneWord(statuses) ==
    IF In("Other", statuses)
    THEN statuses \o <<"Timeout", "ConnectionError", "InvalidURL">>
    ELSE statuses

(* if 'Other' in selected_statuses: selected_statuses.extend([...]) *)
ExpandOther(statuses) ==
    IF In("Other", statuses)
    THEN statuses \o <<"Timeout", "Connection Error", "Invalid URL">>
    ELSE statuses

(* file_link_map: rel_file -> {title, links_with_text}, a dict in insertion
   order, kept as the list of its items *)
RECURSIVE LinksWithText(_, _)
LinksWithText(o, f) ==
    IF o = <<>> THEN <<>>
    ELSE (IF Head(o).file = f
          THEN <<[link |-> Head(o).link, text |-> Head(o).text]>>
          ELSE <<>>) \o LinksWithText(Tail(o), f)

RECURSIVE FilesInOrder(_, _)
FilesInOrder(o, seen) ==
    IF o = <<>> THEN <<>>
    ELSE IF Head(o).file \in seen THEN FilesInOrder(Tail(o), seen)
    ELSE <<Head(o).file>> \o FilesInOrder(Tail(o), seen \cup {Head(o).file})

LinkFileLinkMap(o) ==
    LET fs == FilesInOrder(o, {})
    IN [i \in DOMAIN fs |->
           [file |-> fs[i], title |-> Title(fs[i]),
            links_with_text |-> LinksWithText(o, fs[i])]]

(* result_map = {res['link']: res for res in link_results
                 if res['status_category'] in selected_statuses}.
   The values are the dict objects of link_results themselves: the map is
   the heap of those objects, keyed by link. *)
LinkSelected(res, statuses) == In(res.status_category, statuses)

ResultMap(res, statuses) ==
    LET keep == {i \in DOMAIN res : LinkSelected(res[i], statuses)}
    IN [link \in {res[i].link : i \in keep} |->
           res[CHOOSE i \in keep :
                   /\ res[i].link = link
                   /\ \A j \in keep : res[j].link = link => j <= i]]

(* result['text'] = link_data['text'] on the shared object *)
SetText(obj, text) == [text |-> text] @@ obj

(* the loop body of lines 107-113 over one file's links: the heap after the
   writes, and the references appended to links_in_file_with_status *)
RECURSIVE LinkFileLoop(_, _, _)
LinkFileLoop(lwt, heap, refs) ==
    IF lwt = <<>> THEN [heap |-> heap, refs |-> refs]
    ELSE IF Head(lwt).link \in DOMAIN heap
    THEN LinkFileLoop(Tail(lwt),
                      [heap EXCEPT ![Head(lwt).link] = SetText(@, Head(lwt).text)],
                      Append(refs, Head(lwt).link))
    ELSE LinkFileLoop(Tail(lwt), heap, refs)

(* the loop of lines 105-120 over file_link_map: the heap at the end and
   detailed_results, whose 'links' hold references into the heap *)
RECURSIVE LinkLoop(_, _, _)
LinkLoop(flm, heap, detailed) ==
    IF flm = <<>> THEN [heap |-> heap, detailed |-> detailed]
    ELSE LET r == LinkFileLoop(Head(flm).links_with_text, heap, <<>>)
         IN LinkLoop(Tail(flm), r.heap,
                     IF r.refs # <<>>
                     THEN Append(detailed, [file |-> Head(flm).file,
                                            title |-> Head(flm).title,
                                            links |-> r.refs])
                     ELSE detailed)

(* jsonify: every reference is serialised as the object it points to *)
Serialise(detailed, heap) ==
    [i \in DOMAIN detailed |->
        [file |-> detailed[i].file, title |-> detailed[i].title,
         links |-> [k \in DOMAIN detailed[i].links |-> heap[detailed[i].links[k]]]]]

LinkRun(res, o, statuses) ==
    LinkLoop(LinkFileLinkMap(o), ResultMap(res, statuses), <<>>)

LinkReport(res, o, statuses) ==
    [total_links_checked |-> Analytics(res).total_links_checked,
     status_counts |-> Analytics(res).status_counts,
     details |-> Serialise(LinkRun(res, o, statuses).detailed,
                           LinkRun(res, o, statuses).heap)]

(* link_results after the handler: the objects the loop wrote to *)
LinkResultsAfter(res, o, statuses) ==
    LET heap == LinkRun(res, o, statuses).heap
    IN [i \in DOMAIN res |->
           IF res[i].link \in DOMAIN heap /\ LinkSelected(res[i], statuses)
           THEN heap[res[i].link] ELSE res[i]]

---------------------------------------------------------------------------
(* The handlers *)

(* the statuses a request may ask for *)
FilterChoices ==
    { <<>>, <<"*">>, <<"404">>, <<"4xx">>, <<"2xx", "Other">>, <<"Other">>,
      <<"Timeout", "Connection Error", "Invalid URL">>,
      <<"Timeout", "ConnectionError", "InvalidURL">>, <<"N/A">>,
      <<"Connection Error">>, <<"Invalid URL">> }

(* if not links_to_check: return the empty report *)
ShortCircuit ==
    /\ main_pc = "handler"
    /\ links_to_check = <<>>
    /\ report' = NoReport
    /\ main_pc' = "done"
    /\ UNCHANGED <<service, occ, links_to_check, unique_links, link_queue,
                   unfinished_tasks, num_threads, started, workers, lock,
                   results, link_results, requested, selected_statuses,
                   claimed, issued, ended, peer, gw, scan_cache, scan>>

(* run_http_audit from the return of check_links_threaded to its response.
   http_codes is read from the request at line 96 and first used here. *)
HttpAggregate ==
    /\ main_pc = "returned"
    /\ service = "http"
    /\ \E codes \in FilterChoices :
        /\ requested' = codes
        /\ selected_statuses' = codes
        /\ report' = HttpReport(link_results, occ, codes)
    /\ main_pc' = "done"
    /\ UNCHANGED <<service, occ, links_to_check, unique_links, link_queue,
                   unfinished_tasks, num_threads, started, workers, lock,
                   results, link_results, claimed, issued, ended, peer, gw, scan_cache, scan>>

(* run_link_audit from the return of check_links_threaded to its response.
   link_audit_statuses is read and extended at lines 67-70 and first used
   here. *)
LinkAggregate ==
    /\ main_pc = "returned"
    /\ service = "link"
    /\ \E statuses \in FilterChoices :
        /\ requested' = statuses
        /\ selected_statuses' = ExpandOther(statuses)
        /\ report' = LinkReport(link_results, occ, ExpandOther(statuses))
        /\ link_results' = LinkResultsAfter(link_results, occ, ExpandOther(statuses))
    /\ main_pc' = "done"
    /\ UNCHANGED <<service, occ, links_to_check, unique_links, link_queue,
                   unfinished_tasks, num_threads, started, workers, lock,
                   results, claimed, issued, ended, peer, gw, scan_cache, scan>>

---------------------------------------------------------------------------
(* server.py: analyze_single_file with check_broken_links.  Its
   check_links_threaded and worker are those of the audit services; its
   check_link records broken links only, as {link, status}. *)

(* check_link of server.py: the status it records, NoCode when it records
   nothing; the except clauses are tried in order *)
ServerStatus(e) ==
    IF e.kind = "response"
    THEN IF 400 <= e.code /\ e.code < 600 THEN PyInt(e.code) ELSE NoCode
    ELSE IF "Timeout" \in Bases(e.kind) THEN PyStr("Timeout")
    ELSE IF "ConnectionError" \in Bases(e.kind) THEN PyStr("Connection Error")
    ELSE PyStr("Invalid URL")

(* requests.get returns or raises in check_link of server.py *)
ServerRequestEnds(w, e) ==
    /\ service = "server"
    /\ w.pc = "request"
    /\ workers' = Move(w, [w EXCEPT !.pc = IF ServerStatus(e) = NoCode
                                           THEN "task_done" ELSE "lock",
                                    !.status_code = ServerStatus(e)])
    /\ ended' = [ended EXCEPT ![w.link] = Append(@, e)]
    /\ UNCHANGED <<service, occ, links_to_check, main_pc, unique_links,
                   link_queue, unfinished_tasks, num_threads, started, lock,
                   results, link_results, requested, selected_statuses, report,
                   claimed, issued, peer, gw, scan_cache, scan>>

(* broken_links_list.append({'link': link, 'status': ...}) and the release
   at the end of the with block *)
ServerAppend(w) ==
    /\ service = "server"
    /\ w.pc = "append"
    /\ results' = Append(results, [link |-> w.link, status |-> w.status_code])
    /\ lock' = FALSE
    /\ workers' = Move(w, [w EXCEPT !.pc = "task_done"])
    /\ UNCHANGED <<service, occ, links_to_check, main_pc, unique_links,
                   link_queue, unfinished_tasks, num_threads, started,
                   link_results, requested, selected_statuses, report,
                   claimed, issued, ended, peer, gw, scan_cache, scan>>

(* {url: text for text, url in http_links_with_anchor}: a later pair
   replaces the value an earlier pair of the same url has set *)
RECURSIVE LinkToTextMap(_)
LinkToTextMap(o) ==
    IF o = <<>> THEN EmptyDict
    ELSE LET last == o[Len(o)]
             before == LinkToTextMap(SubSeq(o, 1, Len(o) - 1))
         IN (last.link :> last.text) @@ before

(* link_to_text_map.get(link, '[Image or No Anchor]') *)
GetText(map, link) ==
    IF link \in DOMAIN map THEN map[link] ELSE "[Image or No Anchor]"

(* broken_links_with_anchor *)
BrokenLinksWithAnchor(broken, o) ==
    [k \in DOMAIN broken |->
        [link |-> broken[k].link, status |-> broken[k].status,
         text |-> GetText(LinkToTextMap(o), broken[k].link)]]

(* analyze_single_file from the return of check_links_threaded to
   result['broken_links'] *)
ServerAggregate ==
    /\ main_pc = "returned"
    /\ service = "server"
    /\ report' = [broken_links |-> BrokenLinksWithAnchor(link_results, occ)]
    /\ main_pc' = "done"
    /\ UNCHANGED <<service, occ, links_to_check, unique_links, link_queue,
                   unfinished_tasks, num_threads, started, workers, lock,
                   results, link_results, requested, selected_statuses,
                   claimed, issued, ended, peer, gw, scan_cache, scan>>

---------------------------------------------------------------------------
(* api_gateway.py and scan_service.py: separate processes *)

(* no request is being handled by the gateway, and SCAN_CACHE_DIR is empty *)
NoGateway ==
    [pc |-> "none", endpoint |-> "none", url |-> "none", made |-> 0,
     base_download_dir |-> 0, scan_dir |-> 0, error |-> FALSE, status |-> 0]

(* run_scan is not running *)
NoScan == [pc |-> "none"]

OthersIdle ==
    /\ gw = NoGateway
    /\ scan_cache = {}
    /\ scan = NoScan

(* the seven POST endpoints of the gateway; the last three return
   response.json() instead of response.content *)
Endpoints ==
    {"http_codes", "code_blocks", "links", "text_scanner", "analytics",
     "list_folder", "get_file_details"}
JsonEndpoints == {"analytics", "list_folder", "get_file_details"}

(* the folder_in_repo / file_in_repo of a request: absent, on another host,
   a repository root without /tree/ or /blob/, a path too short to hold
   owner and repo, or a full GitHub URL *)
UrlKinds == {"missing", "not_github", "no_tree", "short_path", "github"}

(* parse_github_url: its fifth result, "" standing for None *)
ParseError(url) ==
    CASE url = "not_github" -> "Not a GitHub URL"
      [] url = "no_tree" -> "URL does not contain /tree/ or /blob/. Assuming root."
      [] url = "short_path" -> "URL Parsing failed"
      [] OTHER -> ""

(* how download_github_contents and the listdir check end *)
DownloadOutcomes == {"downloaded", "HTTPError", "RequestException", "empty"}

(* how the request to the downstream service ends: "bad_json" is a 2xx
   response whose body response.json() cannot decode *)
ForwardOutcomes == {"ok", "HTTPError", "ConnectionError", "bad_json"}

(* the body of every gateway action: the other machines stand still *)
GatewayOnly ==
    UNCHANGED <<service, occ, links_to_check, main_pc, unique_links,
                link_queue, unfinished_tasks, num_threads, started, workers,
                lock, results, link_results, requested, selected_statuses,
                report, claimed, issued, ended, peer, scan>>

(* a POST request reaches one of the endpoints *)
GwReceive(ep, url, codes_given) ==
    /\ gw.pc \in {"idle", "returned"}
    /\ gw.made < MaxRequests
    /\ gw' = [pc |-> IF url = "missing" \/ (ep = "http_codes" /\ ~codes_given)
                        THEN "missing" ELSE "download",
              endpoint |-> ep, url |-> url, made |-> gw.made,
              base_download_dir |-> 0, scan_dir |-> 0, error |-> FALSE,
              status |-> 0]
    /\ UNCHANGED scan_cache
    /\ GatewayOnly

(* if not folder_url: return 400 *)
GwMissing ==
    /\ gw.pc = "missing"
    /\ gw' = [gw EXCEPT !.pc = "returned", !.status = 400]
    /\ UNCHANGED scan_cache
    /\ GatewayOnly

(* download_repo_item up to the try: a directory named by a fresh uuid4 is
   made under SCAN_CACHE_DIR *)
GwMakeDirs ==
    /\ gw.pc = "download"
    /\ gw' = [gw EXCEPT !.pc = "parse", !.made = @ + 1,
                        !.base_download_dir = gw.made + 1]
    /\ scan_cache' = scan_cache \cup {gw.made + 1}
    /\ GatewayOnly

(* if error: return None, None, None, error *)
GwParseFails ==
    /\ gw.pc = "parse"
    /\ ParseError(gw.url) # ""
    /\ gw' = [gw EXCEPT !.pc = "downloaded", !.error = TRUE, !.scan_dir = 0]
    /\ UNCHANGED scan_cache
    /\ GatewayOnly

(* the download, the listdir check and the two except clauses *)
GwDownload(outcome) ==
    /\ gw.pc = "parse"
    /\ ParseError(gw.url) = ""
    /\ IF outcome = "downloaded"
       THEN /\ gw' = [gw EXCEPT !.pc = "downloaded", !.error = FALSE,
                                !.scan_dir = gw.base_download_dir]
            /\ UNCHANGED scan_cache
       ELSE /\ gw' = [gw EXCEPT !.pc = "downloaded", !.error = TRUE,
                                !.scan_dir = 0]
            /\ scan_cache' = scan_cache \ {gw.base_download_dir}
    /\ GatewayOnly

(* if error: return 500 *)
GwDownloadError ==
    /\ gw.pc = "downloaded"
    /\ gw.error
    /\ gw' = [gw EXCEPT !.pc = "returned", !.status = 500]
    /\ UNCHANGED scan_cache
    /\ GatewayOnly

(* the try block of the endpoint: requests.post, raise_for_status,
   cleanup_scan and the return, or the except clause with its cleanup_scan.
   After a body that is not JSON cleanup_scan runs a second time on the
   directory it has removed, and swallows the error. *)
GwForward(outcome) ==
    /\ gw.pc = "downloaded"
    /\ ~gw.error
    /\ outcome = "bad_json" => gw.endpoint \in JsonEndpoints
    /\ scan_cache' = scan_cache \ {gw.scan_dir}
    /\ gw' = [gw EXCEPT !.pc = "returned",
                        !.status = IF outcome = "ok" THEN 200 ELSE 500]
    /\ GatewayOnly

Gateway ==
    \/ \E ep \in Endpoints, url \in UrlKinds, codes_given \in BOOLEAN :
          GwReceive(ep, url, codes_given)
    \/ GwMissing
    \/ GwMakeDirs
    \/ GwParseFails
    \/ \E outcome \in DownloadOutcomes : GwDownload(outcome)
    \/ GwDownloadError
    \/ \E outcome \in ForwardOutcomes : GwForward(outcome)

---------------------------------------------------------------------------
(* scan_service.py: run_scan, task 'code_blocks', type 'untagged', over one
   file *)

(* the lines a file is made of, FENCE standing for the three backquotes:
   plain text, a bare fence, a fence with a language, an indented bare
   fence, a bare fence followed by a blank *)
Lines == {"text", "FENCE", "FENCEpython", "  FENCE", "FENCE "}
Contents == UNION {[1..n -> Lines] : n \in 0..MaxFileLines}

(* str.strip() *)
Strip(line) ==
    CASE line = "  FENCE" -> "FENCE"
      [] line = "FENCE " -> "FENCE"
      [] line = " " -> ""
      [] OTHER -> line

(* str.startswith('```') *)
StartsWithFence(line) == line \in {"FENCE", "FENCEpython", "FENCE "}

(* re.findall with re.MULTILINE and a pattern anchored at the start of the
   line: what follows the fence on every line that begins with one in its
   first column *)
RECURSIVE FindAllFences(_)
FindAllFences(content) ==
    IF content = <<>> THEN <<>>
    ELSE LET line == Head(content)
             group == CASE line = "FENCE" -> <<"">>
                        [] line = "FENCE " -> <<" ">>
                        [] line = "FENCEpython" -> <<"python">>
                        [] OTHER -> <<>>
         IN group \o FindAllFences(Tail(content))

(* sum(1 for lang in all_blocks if not lang.strip()) *)
RECURSIVE CountUntagged(_)
CountUntagged(all_blocks) ==
    IF all_blocks = <<>> THEN 0
    ELSE (IF Strip(Head(all_blocks)) = "" THEN 1 ELSE 0)
         + CountUntagged(Tail(all_blocks))

(* [line for i, line in enumerate(untagged_lines) if i % 2 == 0], i from 0 *)
EvenIndexed(untagged_lines) ==
    [k \in 1..((Len(untagged_lines) + 1) \div 2) |-> untagged_lines[2 * k - 1]]

(* the body of every run_scan action: the other machines stand still *)
ScanOnly ==
    UNCHANGED <<service, occ, links_to_check, main_pc, unique_links,
                link_queue, unfinished_tasks, num_threads, started, workers,
                lock, results, link_results, requested, selected_statuses,
                report, claimed, issued, ended, peer, gw, scan_cache>>

(* all_blocks = re.findall; if not all_blocks: continue *)
ScanFindAll ==
    /\ scan.pc = "findall"
    /\ LET all_blocks == FindAllFences(scan.content)
       IN scan' = [scan EXCEPT !.all_blocks = all_blocks,
                               !.pc = IF all_blocks = <<>> THEN "done" ELSE "count"]
    /\ ScanOnly

(* untagged_count = sum(...); if untagged_count > 0: the scan of the lines
   starts *)
ScanCount ==
    /\ scan.pc = "count"
    /\ LET untagged_count == CountUntagged(scan.all_blocks)
       IN scan' = [scan EXCEPT !.untagged_count = untagged_count,
                               !.i = 1,
                               !.in_code_block = FALSE,
                               !.untagged_lines = <<>>,
                               !.pc = IF untagged_count > 0 THEN "lines" ELSE "done"]
    /\ ScanOnly

(* one round of for i, line in enumerate(content.split('\n'), 1) *)
ScanLine ==
    /\ scan.pc = "lines"
    /\ scan.i <= Len(scan.content)
    /\ LET line == scan.content[scan.i]
       IN IF StartsWithFence(Strip(line))
          THEN IF ~scan.in_code_block
               THEN scan' = [scan EXCEPT
                        !.in_code_block = TRUE,
                        !.untagged_lines = IF Strip(line) = "FENCE"
                                           THEN Append(@, scan.i) ELSE @,
                        !.i = @ + 1]
               ELSE scan' = [scan EXCEPT !.in_code_block = FALSE, !.i = @ + 1]
          ELSE scan' = [scan EXCEPT !.i = @ + 1]
    /\ ScanOnly

(* detailed_results.append({... 'count': untagged_count, 'lines': [...]}) *)
ScanAppend ==
    /\ scan.pc = "lines"
    /\ scan.i > Len(scan.content)
    /\ scan' = [scan EXCEPT
                   !.detailed_results =
                       Append(@, [type |-> "untagged",
                                  count |-> scan.untagged_count,
                                  lines |-> EvenIndexed(scan.untagged_lines)]),
                   !.pc = "done"]
    /\ ScanOnly

RunScan == ScanFindAll \/ ScanCount \/ ScanLine \/ ScanAppend

---------------------------------------------------------------------------
(* Initial states *)

SeqsUpTo(S, n) == UNION {[1..k -> S] : k \in 0..n}

InitLocals ==
    /\ unique_links = {}
    /\ link_queue = EmptyBag
    /\ unfinished_tasks = 0
    /\ num_threads = 0
    /\ started = 0
    /\ workers = EmptyBag
    /\ lock = FALSE
    /\ results = <<>>
    /\ link_results = <<>>
    /\ requested = <<>>
    /\ selected_statuses = <<>>
    /\ report = NoReport
    /\ claimed = [l \in AllLinks |-> 0]
    /\ issued = [l \in AllLinks |-> 0]
    /\ ended = [l \in AllLinks |-> <<>>]

(* one call alone in the process *)
InitCall ==
    /\ InitLocals
    /\ peer = NoPeer
    /\ OthersIdle

(* check_links_threaded called with any list of links *)
PoolInit ==
    /\ service = "pool"
    /\ occ = <<>>
    /\ links_to_check \in SeqsUpTo(Urls \cup {EmptyLink}, MaxLinks)
    /\ main_pc = "call"
    /\ InitCall

(* check_links_threaded called with one link: one check_link *)
ProbeInit ==
    /\ service = "pool"
    /\ occ = <<>>
    /\ \E u \in Urls : links_to_check = <<u>>
    /\ main_pc = "call"
    /\ InitCall

(* check_links_threaded called with 1..MaxWideUrls distinct links *)
WideInit ==
    /\ service = "pool"
    /\ occ = <<>>
    /\ \E n \in 1..MaxWideUrls : links_to_check = [i \in 1..n |-> UrlNames[i]]
    /\ main_pc = "call"
    /\ InitCall

(* a handler after the extraction of the occurrences from the files: the
   files are read one after the other, so the occurrences of a file are
   adjacent *)
OccRecords ==
    {[file |-> f, title |-> Title(f), link |-> u, text |-> t] :
        f \in Files, u \in Urls, t \in Texts}

(* The program compares file names, URLs and anchor texts for equality only,
   so a list of occurrences stands for every list obtained from it by
   renaming them: the first occurrence is taken to be in the first file, of
   the first URL and with the first anchor text. *)
FirstOccurrence ==
    [file |-> FileNames[1], title |-> Title(FileNames[1]),
     link |-> UrlNames[1], text |-> "x"]

OccLists ==
    {o \in SeqsUpTo(OccRecords, MaxOcc) :
        /\ \A i, j \in DOMAIN o : i < j => FileIdx(o[i].file) <= FileIdx(o[j].file)
        /\ o # <<>> => o[1] = FirstOccurrence}

RECURSIVE LinksOf(_)
LinksOf(o) == IF o = <<>> THEN <<>> ELSE <<Head(o).link>> \o LinksOf(Tail(o))

AuditInit ==
    /\ service \in {"http", "link"}
    /\ occ \in OccLists
    /\ links_to_check = LinksOf(occ)
    /\ main_pc = "handler"
    /\ InitCall

(* no audit handler and no call of check_links_threaded is running *)
AuditIdle ==
    /\ service = "none"
    /\ occ = <<>>
    /\ links_to_check = <<>>
    /\ main_pc = "none"
    /\ InitLocals
    /\ peer = NoPeer

(* the gateway waits for its first request, SCAN_CACHE_DIR is empty *)
GatewayInit ==
    /\ AuditIdle
    /\ gw = [NoGateway EXCEPT !.pc = "idle"]
    /\ scan_cache = {}
    /\ scan = NoScan

(* run_scan has read the content of a file and starts the code_blocks task *)
ScanInit ==
    /\ AuditIdle
    /\ gw = NoGateway
    /\ scan_cache = {}
    /\ \E content \in Contents :
          scan = [pc |-> "findall", content |-> content, all_blocks |-> <<>>,
                  untagged_count |-> 0, i |-> 0, in_code_block |-> FALSE,
                  untagged_lines |-> <<>>, detailed_results |-> <<>>]

(* analyze_single_file has extracted the (text, url) pairs of its file and
   calls check_links_threaded *)
ServerInit ==
    /\ service = "server"
    /\ occ \in {o \in OccLists : \A i \in DOMAIN o : o[i].file = FileNames[1]}
    /\ links_to_check = LinksOf(occ)
    /\ main_pc = "call"
    /\ InitCall

(* a handler whose files hold at most one link, or check_links_threaded
   called with a list of at most one element *)
SmallInit ==
    \/ AuditInit /\ Len(occ) <= 1
    \/ PoolInit /\ Len(links_to_check) <= 1

(* the lists the second call is made with, and how its requests end *)
PeerLists == {<<"http://b">>, <<"http://a", "http://c">>}
PeerEndings == {[kind |-> "response", code |-> 200], [kind |-> "Timeout", code |-> 0]}

(* run_http_audit over files that hold at most one link, and a second call
   that is about to enter check_links_threaded in another thread of the
   process *)
TwoInit ==
    /\ service = "http"
    /\ occ \in OccLists
    /\ Len(occ) <= 1
    /\ links_to_check = LinksOf(occ)
    /\ main_pc = "handler"
    /\ InitLocals
    /\ \E links \in PeerLists : peer = PeerCall(links)
    /\ OthersIdle

---------------------------------------------------------------------------
(* Next-state relations *)

Main == Enqueue \/ StartThread \/ JoinReturn

(* a step of a started thread, its request ending in one of the ways of E *)
WorkersWith(E) ==
    \E w \in Running :
        \/ WorkerTest(w)
        \/ \E link \in BagToSet(link_queue) : WorkerGet(w, link)
        \/ \E e \in E : RequestEnds(w, e)
        \/ Acquire(w)
        \/ AppendResult(w)
        \/ TaskDone(w)

Workers == WorkersWith(Endings)

PoolNext == Main \/ Workers

(* the launch of a call: the requests issued are still outstanding *)
Launch ==
    \E w \in Running :
        \/ WorkerTest(w)
        \/ \E link \in BagToSet(link_queue) : WorkerGet(w, link)

LaunchNext == Enqueue \/ StartThread \/ Launch

PeerSteps ==
    \/ PeerEnqueue
    \/ PeerStartThread
    \/ PeerJoinReturn
    \/ \E w \in BagToSet(peer.workers) :
        \/ PeerWorkerTest(w)
        \/ \E link \in BagToSet(peer.link_queue) : PeerWorkerGet(w, link)
        \/ \E e \in PeerEndings : PeerRequestEnds(w, e)
        \/ PeerAcquire(w)
        \/ PeerAppendResult(w)
        \/ PeerTaskDone(w)

TwoNext == Main \/ Workers \/ ShortCircuit \/ HttpAggregate \/ PeerSteps

(* a step of a thread started by server.py's check_links_threaded *)
ServerWorkers ==
    \E w \in Running :
        \/ WorkerTest(w)
        \/ \E link \in BagToSet(link_queue) : WorkerGet(w, link)
        \/ \E e \in Endings : ServerRequestEnds(w, e)
        \/ Acquire(w)
        \/ ServerAppend(w)
        \/ TaskDone(w)

ServerNext == Main \/ ServerWorkers \/ ServerAggregate

Handlers == ShortCircuit \/ HttpAggregate \/ LinkAggregate

Next == Main \/ Workers \/ Handlers

Spec == AuditInit /\ [][Next]_vars
SpecPool == PoolInit /\ [][PoolNext]_vars
SpecSmall == SmallInit /\ [][Next]_vars
SpecTwoCalls == TwoInit /\ [][TwoNext]_vars
SpecCheckLink == ProbeInit /\ [][Main \/ WorkersWith(AllEndings)]_vars
SpecLaunch == WideInit /\ [][LaunchNext]_vars
SpecGateway == GatewayInit /\ [][Gateway]_vars
SpecScan == ScanInit /\ [][RunScan]_vars
SpecServer == ServerInit /\ [][ServerNext]_vars

(* every thread that can take a step is scheduled, and so is the caller *)
SpecPoolFair == SpecPool /\ WF_vars(Main) /\ WF_vars(Workers)

---------------------------------------------------------------------------
(* Properties *)

Returned == main_pc \in {"returned", "done"}
InputLinks == SeqToSet(links_to_check)
Occurrences(link) == Cardinality({i \in DOMAIN links_to_check : links_to_check[i] = link})
ResultsFor(link) == {i \in DOMAIN results : results[i].link = link}
FailureCategories == {"Timeout", "Connection Error", "Invalid URL"}

(* C1: every distinct non-empty link of the input is taken from the queue by
   one worker and one GET is issued for it: never two while the call runs,
   exactly one once it has returned, whatever the number of its occurrences
   in the input and however the probe ended. *)
C1_OneProbePerUrl ==
    /\ \A l \in AllLinks :
        /\ claimed[l] <= 1
        /\ issued[l] <= 1
        /\ l \notin InputLinks => claimed[l] = 0 /\ issued[l] = 0
    /\ Returned =>
        \A l \in InputLinks : Truthy(l) => claimed[l] = 1 /\ issued[l] = 1

C1_Witness ==
    /\ main_pc = "returned"
    /\ \E l \in InputLinks :
        /\ Truthy(l)
        /\ Occurrences(l) >= 2
        /\ issued[l] = 1
        /\ \E i \in ResultsFor(l) : results[i].status_category \in FailureCategories

(* C2: when check_links_threaded has returned, the results list holds
   exactly one outcome for every distinct link and no thread is left that
   could still append to it; what the caller received is that list. *)
C2_ReturnsComplete ==
    Returned =>
        /\ \A l \in InputLinks : Cardinality(ResultsFor(l)) = 1
        /\ Len(results) = Cardinality(InputLinks)
        /\ Len(link_results) = Len(results)
        /\ main_pc = "returned" => link_results = results
        /\ At("request") \cup At("lock") \cup At("append") = {}

C2_Witness ==
    /\ main_pc = "returned"
    /\ Len(results) = 2
    /\ Cardinality(InputLinks) = 2

(* C3: a worker that has seen the queue non-empty finds an item when it
   calls link_queue.get(): no worker waits in get() on an empty queue. *)
C3_GetNeverBlocks ==
    At("get") # {} => link_queue # EmptyBag

(* C4: num_threads is min(MAX_LINK_CHECKER_THREADS, number of distinct
   links); no more threads than that are started, all of them once the call
   has returned, and no more probes than that are in flight. *)
C4_WorkerBound ==
    LET n == Min(MAX_LINK_CHECKER_THREADS, Cardinality(InputLinks))
    IN /\ main_pc \in {"start", "returned", "done"} => num_threads = n
       /\ started <= n
       /\ BagCardinality(workers) = started
       /\ Returned => started = n
       /\ InFlight <= n
       /\ InFlight <= MAX_LINK_CHECKER_THREADS

C4_Witness ==
    /\ Cardinality(InputLinks) > MAX_LINK_CHECKER_THREADS
    /\ started = MAX_LINK_CHECKER_THREADS
    /\ InFlight = MAX_LINK_CHECKER_THREADS
    /\ link_queue # EmptyBag

(* C5: with fair scheduling and probes that end, check_links_threaded
   returns. *)
C5_Returns == <>(main_pc = "returned")

C5_Witness ==
    /\ main_pc = "returned"
    /\ Len(results) = 2
    /\ link_queue = EmptyBag
    /\ unfinished_tasks = 0


Done == main_pc = "done"
OccLinks == {occ[i].link : i \in DOMAIN occ}
Categories == {results[i].status_category : i \in DOMAIN results}
CountOf(c) == Cardinality({i \in DOMAIN results : results[i].status_category = c})
OutcomeOf(link) == results[CHOOSE i \in DOMAIN results : results[i].link = link]

RECURSIVE SumOver(_, _)
SumOver(d, keys) ==
    IF keys = {} THEN 0
    ELSE LET k == CHOOSE x \in keys : TRUE IN d[k] + SumOver(d, keys \ {k})

(* C6: in the report of either handler the values of status_counts sum to
   total_links_checked, which is the number of distinct links among the
   extracted occurrences. *)
C6_CountsSumToTotal ==
    Done =>
        /\ SumOver(report.status_counts, DOMAIN report.status_counts)
               = report.total_links_checked
        /\ report.total_links_checked = Cardinality(OccLinks)

C6_Witness ==
    /\ Done
    /\ report.total_links_checked = 2
    /\ \E c \in DOMAIN report.status_counts : report.status_counts[c] = 2

(* C7: status_counts and total_links_checked of either handler are
   determined by the probe outcomes alone: each category is counted over
   every outcome, whatever statuses the request asked for. *)
C7_CountsIgnoreFilter ==
    Done /\ occ # <<>> =>
        /\ report.total_links_checked = Len(results)
        /\ DOMAIN report.status_counts = Categories
        /\ \A c \in Categories : report.status_counts[c] = CountOf(c)

C7_Witness ==
    /\ Done
    /\ Len(results) = 2
    /\ requested # <<>>
    /\ report.details = <<>>
    /\ report.total_links_checked = 2

(* the entries of run_link_audit's details, file after file *)
RECURSIVE FlatLinks(_)
FlatLinks(details) ==
    IF details = <<>> THEN <<>>
    ELSE Head(details).links \o FlatLinks(Tail(details))

(* the occurrences whose outcome's category is among the selected statuses *)
SelectedOcc ==
    SelectSeq(occ, LAMBDA o : In(OutcomeOf(o.link).status_category, selected_statuses))

(* C8: run_link_audit's details has one entry per selected occurrence, and
   each entry carries the anchor text of its own occurrence, also when the
   link occurs again later with another text.  (The claim adds that the
   outcome records are not modified by the aggregation, link_results =
   results; the entries are what the response shows.) *)
C8_OwnAnchorText ==
    Done /\ service = "link" /\ occ # <<>> =>
        LET entries == FlatLinks(report.details)
        IN /\ Len(entries) = Len(SelectedOcc)
           /\ \A k \in DOMAIN entries :
                  /\ entries[k].link = SelectedOcc[k].link
                  /\ entries[k].text = SelectedOcc[k].text

(* position of the first occurrence of a link *)
FirstOcc(link) ==
    CHOOSE i \in DOMAIN occ :
        /\ occ[i].link = link
        /\ \A j \in DOMAIN occ : occ[j].link = link => i <= j

(* C9: the rows of run_http_audit's details follow the order in which the
   occurrences were extracted (link after link as first met, and for one link
   its occurrences in order), whatever order the probes completed in. *)
C9_OccurrenceOrder ==
    Done /\ service = "http" =>
        \A i, j \in DOMAIN report.details :
            i < j => FirstOcc(report.details[i].link) <= FirstOcc(report.details[j].link)

(* how many entries details has for a link in a file, and how many
   occurrences the file has of it *)
EntriesFor(file, link) ==
    LET groups == {g \in DOMAIN report.details : report.details[g].file = file}
    IN IF groups = {} THEN 0
       ELSE LET g == CHOOSE x \in groups : TRUE
            IN Cardinality({k \in DOMAIN report.details[g].links :
                               report.details[g].links[k].link = link})
OccurrencesIn(file, link) ==
    Cardinality({i \in DOMAIN occ : occ[i].file = file /\ occ[i].link = link})

(* C10: run_link_audit includes every occurrence of a link whose outcome's
   category is in link_audit_statuses, or whose status code written as a
   string is in it, or when it contains "*". *)
C10_LinkFilter ==
    Done /\ service = "link" =>
        \A i \in DOMAIN occ :
            LET res == OutcomeOf(occ[i].link)
            IN (\/ In(res.status_category, selected_statuses)
                \/ In(Str(res.status_code), selected_statuses)
                \/ In("*", selected_statuses))
               => EntriesFor(occ[i].file, occ[i].link)
                      = OccurrencesIn(occ[i].file, occ[i].link)

(* the three categories check_link gives to a probe without a response, as
   a filter that lists them *)
FailureTags == <<"Timeout", "Connection Error", "Invalid URL">>

(* C11: when the http_codes of run_http_audit contain "Other", details is
   what the same outcomes give under the filter that also lists the three
   failure categories: ["Other"] alone selects what the three tags select,
   and further entries keep selecting what they select. *)
C11_HttpOtherExpansion ==
    Done /\ service = "http" /\ In("Other", requested) =>
        report.details
            = HttpDetails(results, HttpFileLinkMap(occ), requested \o FailureTags)

(* the request that lists the three failure categories in place of "Other" *)
Explicit(statuses) ==
    SelectSeq(statuses, LAMBDA x : x # "Other") \o FailureTags

(* C12: when the link_audit_statuses of run_link_audit contain "Other",
   details is what a call with the same outcomes gives when the three
   failure categories of check_link are listed in its place: ["Other"] alone
   is the three tags, and further entries stay selected. *)
C12_LinkOtherExpansion ==
    Done /\ service = "link" /\ In("Other", requested) =>
        report.details
            = LinkReport(results, occ, ExpandOther(Explicit(requested))).details

C12_Witness ==
    /\ Done
    /\ service = "link"
    /\ requested = <<"2xx", "Other">>
    /\ \E k, m \in DOMAIN FlatLinks(report.details) :
        /\ FlatLinks(report.details)[k].status_category = "Connection Error"
        /\ FlatLinks(report.details)[m].status_category = "2xx"

(* the row of one occurrence: its file, title and anchor text with the
   outcome of its link *)
RowOf(o) ==
    [file |-> o.file, title |-> o.title, anchor |-> o.text, link |-> o.link,
     status_code |-> OutcomeOf(o.link).status_code,
     status_category |-> OutcomeOf(o.link).status_category]
RowCount(row) ==
    Cardinality({k \in DOMAIN report.details : report.details[k] = row})
RowsWithLink(link) ==
    Cardinality({k \in DOMAIN report.details : report.details[k].link = link})
OccWithLink(link) == Cardinality({i \in DOMAIN occ : occ[i].link = link})
OccLike(o) == Cardinality({i \in DOMAIN occ : occ[i] = o})

(* C13: with "*" in http_codes, details of run_http_audit holds for every
   link that occurs k times exactly k rows, one per occurrence with that
   occurrence's file and anchor text and the link's one outcome, and no
   other row. *)
C13_StarJoin ==
    Done /\ service = "http" /\ In("*", requested) =>
        /\ Len(report.details) = Len(occ)
        /\ \A l \in OccLinks :
            /\ Cardinality(ResultsFor(l)) = 1
            /\ RowsWithLink(l) = OccWithLink(l)
        /\ \A i \in DOMAIN occ : RowCount(RowOf(occ[i])) = OccLike(occ[i])
        /\ \A k \in DOMAIN report.details :
            \E i \in DOMAIN occ : report.details[k] = RowOf(occ[i])

C13_Witness ==
    /\ Done
    /\ service = "http"
    /\ requested = <<"*">>
    /\ Len(occ) = 2
    /\ occ[1].link = occ[2].link
    /\ occ[1].text # occ[2].text
    /\ occ[1].file # occ[2].file
    /\ Len(report.details) = 2
    /\ report.details[1].anchor # report.details[2].anchor

(* C14: run_http_audit includes the rows of an outcome if and only if
   http_codes contains "*", or the outcome's category, or the value of its
   status_code field written as a string; an outcome matching none of them
   has no row, and every row is a row of the join of the occurrences with
   the outcomes. *)
C14_HttpFilter ==
    Done /\ service = "http" /\ occ # <<>> =>
        /\ \A l \in OccLinks :
            LET res == OutcomeOf(l)
                selected == \/ In("*", requested)
                            \/ In(res.status_category, requested)
                            \/ In(Str(res.status_code), requested)
            IN RowsWithLink(l) = IF selected THEN OccWithLink(l) ELSE 0
        /\ \A k \in DOMAIN report.details :
            \E i \in DOMAIN occ : report.details[k] = RowOf(occ[i])

C14_Witness ==
    /\ Done
    /\ service = "http"
    /\ requested = <<"404">>
    /\ Len(occ) = 2
    /\ OutcomeOf(occ[1].link).status_code = PyInt(200)
    /\ OutcomeOf(occ[2].link).status_code = PyInt(404)
    /\ Len(report.details) = 1
    /\ report.details[1].link = occ[2].link

(* "<n>xx" for the hundreds digit n of a status code *)
ClassTag(code) ==
    <<"1xx", "2xx", "3xx", "4xx", "5xx", "6xx", "7xx", "8xx", "9xx">>[code \div 100]
NoStatusCode == PyStr("N/A")

(* C15: check_link records one outcome per probe, and which one is decided
   by how the request ended: a response with status s gives status code s
   and category "<s div 100>xx" (404 gives "4xx"); a timeout gives 'Timeout'
   and no status code; a connection failure 'Connection Error'; any other
   exception 'Invalid URL'.  Every ending falls under exactly one case. *)
C15_OutcomeByEnding ==
    \A l \in AllLinks :
        /\ Cardinality(ResultsFor(l)) <= Len(ended[l])
        /\ Returned => Cardinality(ResultsFor(l)) = Len(ended[l])
        /\ \A i \in ResultsFor(l) :
            LET e == ended[l][1]
                r == results[i]
            IN /\ e.kind = "response" =>
                    /\ r.status_code = PyInt(e.code)
                    /\ r.status_category = ClassTag(e.code)
                    /\ e.code = 404 => r.status_category = "4xx"
               /\ e.kind \in {"Timeout", "ConnectTimeout"} =>
                    r.status_code = NoStatusCode /\ r.status_category = "Timeout"
               /\ e.kind = "ConnectionError" =>
                    /\ r.status_code = NoStatusCode
                    /\ r.status_category = "Connection Error"
               /\ e.kind = "Exception" =>
                    r.status_code = NoStatusCode /\ r.status_category = "Invalid URL"
               /\ e.kind \in {"response", "Timeout", "ConnectTimeout",
                              "ConnectionError", "Exception"}

C15_Witness ==
    /\ main_pc = "returned"
    /\ \E l \in InputLinks :
        /\ ended[l] = <<[kind |-> "response", code |-> 404]>>
        /\ results = <<[link |-> l, status_code |-> PyInt(404),
                        status_category |-> "4xx"]>>

(* a category of the form "Nxx" *)
IsNxx(c) == c \in {ClassTag(100 * n) : n \in 1..9}

(* C16: at every moment of an audit call, an outcome in results has a
   numeric status code exactly when its category is of the form "Nxx", and
   the placeholder 'N/A' in place of a status code exactly when its category
   is one of the failure categories. *)
C16_CodeIffNxx ==
    \A i \in DOMAIN results :
        LET r == results[i]
        IN /\ r.status_code.isint <=> IsNxx(r.status_category)
           /\ r.status_code = NoStatusCode <=> r.status_category \in FailureCategories
           /\ IsNxx(r.status_category) \/ r.status_category \in FailureCategories

C16_Witness ==
    /\ main_pc = "start"
    /\ Len(results) = 2
    /\ results[1].status_code = NoStatusCode
    /\ results[1].status_category = "Timeout"
    /\ results[2].status_code = PyInt(404)
    /\ results[2].status_category = "4xx"

(* requests that ended in an exception *)
Failed(link) ==
    {k \in DOMAIN ended[link] : ended[link][k].kind # "response"}
(* threads that hold the outcome of a request for the link and have not
   appended it yet *)
Recording(link) ==
    {w \in At("lock") \cup At("append") : w.link = link}
Holding ==
    CountAt("request") + CountAt("lock") + CountAt("append") + CountAt("task_done")

(* C17: a probe that fails is an outcome like any other and ends no worker:
   every request that ended, an exception included, is recorded or held by
   a thread about to record it; every item taken from the queue is held by
   a thread that still calls task_done() for it, so the queue's count of
   unfinished tasks is the items queued plus the items held; and when the
   handler is done every link has its outcome and the report counts them
   all, whatever happened to the other probes. *)
C17_FailureIsAnOutcome ==
    /\ \A l \in InputLinks :
        Len(ended[l]) = Cardinality(ResultsFor(l))
                            + (IF Recording(l) = {} THEN 0 ELSE 1)
    /\ At("exit") # {} => link_queue = EmptyBag
    /\ main_pc \in {"start", "returned", "done"} =>
        unfinished_tasks = BagCardinality(link_queue) + Holding
    /\ Done /\ occ # <<>> =>
        /\ \A l \in OccLinks : Cardinality(ResultsFor(l)) = 1
        /\ report.total_links_checked = Cardinality(OccLinks)
        /\ \A l \in OccLinks :
            Failed(l) # {} =>
                /\ OutcomeOf(l).status_category \in FailureCategories
                /\ OutcomeOf(l).status_category \in DOMAIN report.status_counts

(* the one thread started so far has recorded a failed probe and is probing
   the next link *)
C17_Witness ==
    /\ started = 1
    /\ Len(results) = 1
    /\ results[1].status_category \in FailureCategories
    /\ Failed(results[1].link) # {}
    /\ \E w \in At("request") : w.link # results[1].link

(* no thread was started, no item taken, no request issued, nothing recorded *)
NoWork ==
    /\ started = 0
    /\ workers = EmptyBag
    /\ results = <<>>
    /\ \A l \in AllLinks : claimed[l] = 0 /\ issued[l] = 0

(* C18: a handler that extracted no occurrence answers total 0, empty
   status_counts and empty details, without calling check_links_threaded,
   starting a thread or issuing a request; check_links_threaded called with
   the empty list starts no thread, finds join() open at once and returns
   the empty list. *)
C18_NothingToCheck ==
    /\ service \in {"http", "link"} /\ occ = <<>> =>
        /\ NoWork
        /\ main_pc \in {"handler", "done"}
        /\ Done =>
            /\ report.total_links_checked = 0
            /\ DOMAIN report.status_counts = {}
            /\ report.details = <<>>
    /\ service = "pool" /\ links_to_check = <<>> =>
        /\ NoWork
        /\ main_pc = "start" =>
            /\ num_threads = 0
            /\ unfinished_tasks = 0
            /\ ENABLED JoinReturn
        /\ Returned => link_results = <<>>

C18_Witness ==
    /\ Done
    /\ service = "http"
    /\ occ = <<>>
    /\ report.total_links_checked = 0
    /\ report.details = <<>>
    /\ started = 0

(* the direct call with the empty list has returned *)
C18_EmptyCallReturned ==
    /\ service = "pool"
    /\ links_to_check = <<>>
    /\ main_pc = "returned"
    /\ link_results = <<>>

(* how many rows (run_http_audit) or entries (run_link_audit) details has
   for a link *)
ShownFor(link) ==
    IF service = "http" THEN RowsWithLink(link)
    ELSE Cardinality({k \in DOMAIN FlatLinks(report.details) :
                         FlatLinks(report.details)[k].link = link})
(* the links whose request ended in an exception of the kind *)
EndedIn(kind) == {l \in OccLinks : ended[l] # <<>> /\ ended[l][1].kind = kind}

(* a connection failure is recorded under connTag and any other failure
   under invalidTag; status_counts has these tags as keys; a filter that
   contains one of them selects the outcomes of that kind, and a filter that
   is this tag alone selects no others *)
TagsAre(connTag, invalidTag) ==
    Done /\ occ # <<>> =>
        \A p \in {<<"ConnectionError", connTag>>, <<"Exception", invalidTag>>} :
            LET kind == p[1]
                tag == p[2]
            IN /\ \A l \in OccLinks :
                    l \in EndedIn(kind) <=> OutcomeOf(l).status_category = tag
               /\ tag \in DOMAIN report.status_counts <=> EndedIn(kind) # {}
               /\ tag \in DOMAIN report.status_counts =>
                    report.status_counts[tag] = Cardinality(EndedIn(kind))
               /\ In(tag, requested) =>
                    \A l \in EndedIn(kind) : ShownFor(l) = OccWithLink(l)
               /\ requested = <<tag>> =>
                    \A l \in OccLinks \ EndedIn(kind) : ShownFor(l) = 0

(* C20, as stated: the tags are `ConnectionError` and `InvalidURL`. *)
C20_TagsInOneWord == TagsAre("ConnectionError", "InvalidURL")

(* C20, amended: the tags check_link records are 'Connection Error' and
   'Invalid URL'; in both handlers a filter containing one of them selects
   exactly the outcomes of that failure kind, and status_counts has these
   tags as keys. *)
C20_TagsAsRecorded == TagsAre("Connection Error", "Invalid URL")

C20_Witness ==
    /\ Done
    /\ requested = <<"Connection Error">>
    /\ Len(occ) = 2
    /\ occ[1].link \in EndedIn("Exception")
    /\ occ[2].link \in EndedIn("ConnectionError")
    /\ ShownFor(occ[1].link) = 0
    /\ ShownFor(occ[2].link) = 1
    /\ report.status_counts["Connection Error"] = 1
    /\ report.status_counts["Invalid URL"] = 1

PeerLinks == SeqToSet(peer.links)
PeerAt(pc) == {w \in BagToSet(peer.workers) : w.pc = pc}

(* C19: of two calls running at once in one process, each works on its own
   queue, lock and results: the results and the report of a call hold
   outcomes of its own links only, the outcome of a link is the one its own
   request gave, a lock is held only by a thread of its own call, the
   number of threads of a call is min(MAX_LINK_CHECKER_THREADS, number of
   its own distinct links), and its count of unfinished tasks moves with
   its own items only. *)
C19_CallsIsolated ==
    /\ \A i \in DOMAIN results : results[i].link \in InputLinks
    /\ \A i \in DOMAIN peer.results : peer.results[i].link \in PeerLinks
    /\ Len(results) <= Cardinality(InputLinks)
    /\ Len(peer.results) <= Cardinality(PeerLinks)
    /\ \A i \in DOMAIN results :
        /\ ended[results[i].link] # <<>>
        /\ results[i].status_code = Classify(ended[results[i].link][1]).status_code
    /\ lock <=> At("append") # {}
    /\ peer.lock <=> PeerAt("append") # {}
    /\ main_pc \in {"start", "returned", "done"} =>
        /\ num_threads = Min(MAX_LINK_CHECKER_THREADS, Cardinality(InputLinks))
        /\ started <= num_threads
        /\ unfinished_tasks = BagCardinality(link_queue) + Holding
    /\ peer.pc \in {"start", "returned"} =>
        /\ peer.num_threads = Min(MAX_LINK_CHECKER_THREADS, Cardinality(PeerLinks))
        /\ peer.started <= peer.num_threads
    /\ Done =>
        /\ report.total_links_checked = Cardinality(OccLinks)
        /\ \A k \in DOMAIN report.details : report.details[k].link \in OccLinks

(* the first call is done, with its one row, while the second, made with two
   other links, has recorded one of them and holds its lock for the other *)
C19_Witness ==
    /\ Done
    /\ Len(report.details) = 1
    /\ report.details[1].link = "http://a"
    /\ num_threads = 1
    /\ peer.pc = "start"
    /\ peer.num_threads = 2
    /\ Len(peer.results) = 1
    /\ peer.lock

(* at most one thread is inside the with block, and the lock is held
   exactly while one is *)
OneAppender ==
    /\ CountAt("append") <= 1
    /\ lock <=> CountAt("append") = 1
(* a step that appends to results is made by the holder of the lock and
   releases it *)
AppendUnderLock ==
    results' # results =>
        /\ lock
        /\ ~lock'
        /\ Len(results') = Len(results) + 1
        /\ CountAt("append") = 1
Waiting == At("lock") # {}

(* C21: at most one worker at a time is inside the append to results; every
   append is made with the lock held and releases it; and, the threads being
   scheduled fairly, a worker waiting for the lock does not wait forever. *)
C21_LockExcludes ==
    /\ []OneAppender
    /\ [][AppendUnderLock]_vars
    /\ Waiting ~> ~Waiting

(* one thread is appending while another waits for the lock *)
C21_Witness ==
    /\ CountAt("append") = 1
    /\ CountAt("lock") = 1
    /\ lock

(* C22: in run_http_audit an outcome without a response (its category is
   one of the failure categories) has rows in details only when http_codes
   contains that category or "*". *)
C22_FailureSelectedByTagOnly ==
    Done /\ service = "http" /\ occ # <<>> =>
        \A l \in OccLinks :
            (/\ OutcomeOf(l).status_category \in FailureCategories
             /\ RowsWithLink(l) > 0)
            => \/ In("*", requested)
               \/ In(OutcomeOf(l).status_category, requested)

(* C23: whenever a handler of the gateway has returned, whatever the
   endpoint and however the request ended (parameter missing, URL parse
   error, download failure, downstream error, success), the directory that
   download_repo_item made under SCAN_CACHE_DIR no longer exists. *)
C23_ScanDirRemovedOnReturn ==
    gw.pc = "returned" => gw.base_download_dir \notin scan_cache

(* the line numbers of the opening fences without a language, the fences
   of the file taken in turn as opening and closing from the top *)
RECURSIVE OpeningUntagged(_, _, _)
OpeningUntagged(content, i, open) ==
    IF i > Len(content) THEN <<>>
    ELSE IF ~StartsWithFence(Strip(content[i]))
         THEN OpeningUntagged(content, i + 1, open)
         ELSE IF open
              THEN OpeningUntagged(content, i + 1, FALSE)
              ELSE (IF Strip(content[i]) = "FENCE" THEN <<i>> ELSE <<>>)
                   \o OpeningUntagged(content, i + 1, TRUE)

(* C24: when run_scan has scanned a file for untagged code blocks, every
   entry it reports for the file has as 'lines' exactly the line numbers of
   the opening fences without a language tag, and as 'count' their number. *)
C24_UntaggedLinesAndCount ==
    scan.pc = "done" =>
        \A k \in 1..Len(scan.detailed_results) :
            LET expected == OpeningUntagged(scan.content, 1, FALSE)
            IN /\ scan.detailed_results[k].lines = expected
               /\ scan.detailed_results[k].count = Len(expected)

(* C25: when analyze_single_file has built broken_links, every row carries
   the anchor text of the first occurrence of its URL in the file, also
   when the URL occurs again with another text. *)
C25_FirstAnchorText ==
    Done /\ service = "server" =>
        \A k \in DOMAIN report.broken_links :
            report.broken_links[k].text = occ[FirstOcc(report.broken_links[k].link)].text

====
